---- MODULE Spec2Model ----
(***************************************************************************)
(* The chat session controller of gui/frontend/src/views/ChatView.tsx:     *)
(* sendMessage with its stream-reading loop, the run-status poller         *)
(* (checkStatus), the history effects, clearHistory and handleStop, and    *)
(* the transcript reducer that sendMessage applies to each decoded record, *)
(* the elapsed timer and the loop-mode controls.                           *)
(*                                                                         *)
(* Text is a sequence of symbols (one symbol per character, or one symbol  *)
(* for a fixed literal of the source).  A missing (undefined) property is  *)
(* the value Undef.  The body of a response is a sequence of bytes, one    *)
(* symbol per byte.                                                        *)
(***************************************************************************)
EXTENDS Integers, Sequences, FiniteSets, TLC

(***************************************************************************)
(* Bounds of the model.                                                    *)
(***************************************************************************)
\* accepted sendMessage calls per run
MaxSends == 2
\* status requests in flight at once
MaxPolls == 1
\* history requests of one kind in flight at once (further ones coalesce)
MaxHist == 1
\* chunks one response stream delivers
MaxChunks == 1
\* reducer applications of the reducer specification
MaxApply == 3
\* accepted sendMessage calls per run of the fair specification
MaxLiveSends == 1
\* seconds the elapsed timer counts
MaxTimer == 2
\* the largest number typed into the loop count field
MaxLoopCount == 2
\* newline-terminated lines of one response body
MaxLines == 2
\* the handler calls of ADBControlView awaiting their request at one time
MaxRequests == 2

(***************************************************************************)
(* Text.                                                                   *)
(***************************************************************************)
NL == "\n"
SP == " "
Undef == <<"undefined">>

\* JavaScript truthiness of an optional string: undefined and '' are falsy
Truthy(s) == s # Undef /\ s # <<>>

\* the white space String.prototype.trim removes
IsWS(c) == c \in {SP, NL, "\t"}

RECURSIVE TrimLeft(_)
TrimLeft(s) ==
    IF s = <<>> THEN <<>>
    ELSE IF IsWS(Head(s)) THEN TrimLeft(Tail(s)) ELSE s

RECURSIVE TrimRight(_)
TrimRight(s) ==
    IF s = <<>> THEN <<>>
    ELSE IF IsWS(s[Len(s)]) THEN TrimRight(SubSeq(s, 1, Len(s) - 1)) ELSE s

Trim(s) == TrimRight(TrimLeft(s))

\* number -> decimal digits
Digit(d) == <<"0", "1", "2", "3", "4", "5", "6", "7", "8", "9">>[d + 1]

RECURSIVE NumStr(_)
NumStr(n) == IF n < 10 THEN <<Digit(n)>> ELSE NumStr(n \div 10) \o <<Digit(n % 10)>>

\* JSON.stringify of an action value: an object of key/value pairs whose
\* values are arrays of numbers, numbers or strings
RECURSIVE JoinItems(_)
RECURSIVE Stringify(_)
JoinItems(parts) ==
    IF parts = <<>> THEN <<>>
    ELSE IF Len(parts) = 1 THEN parts[1]
    ELSE parts[1] \o <<",">> \o JoinItems(Tail(parts))

Stringify(v) ==
    CASE v.t = "num" -> NumStr(v.n)
      [] v.t = "str" -> <<"\"">> \o v.s \o <<"\"">>
      [] v.t = "arr" ->
            <<"[">> \o JoinItems([i \in 1..Len(v.items) |-> Stringify(v.items[i])]) \o <<"]">>
      [] v.t = "obj" ->
            <<"{">> \o JoinItems([i \in 1..Len(v.kv) |->
                        <<"\"">> \o v.kv[i][1] \o <<"\"", ":">> \o Stringify(v.kv[i][2])])
                    \o <<"}">>

Num(n) == [t |-> "num", n |-> n]
Arr(items) == [t |-> "arr", items |-> items]
Obj(kv) == [t |-> "obj", kv |-> kv]

NoAction == [t |-> "undefined"]
\* {"tap":[100,200]}
TapAction == Obj(<< << <<"t", "a", "p">>, Arr(<<Num(100), Num(200)>>) >> >>)
\* {}
EmptyAction == Obj(<<>>)

(***************************************************************************)
(* Messages and events.                                                    *)
(***************************************************************************)
Msg(role, content, thinking, time, duration) ==
    [role |-> role, content |-> content, thinking |-> thinking,
     time |-> time, duration |-> duration]

UserMsgMutNoTime(text) == Msg("user", text, Undef, Undef, Undef)

\* { role: 'user', content: userMsg, time: '...' }
UserMsg(text) == Msg("user", text, Undef, <<"...">>, Undef)
\* { role: 'assistant', content: '', thinking: '' }
Placeholder == Msg("assistant", <<>>, <<>>, Undef, Undef)
\* { role: 'assistant', content: '发生网络错误或系统被中断。' }: the literal is one symbol
FailureText == <<"[network error or interrupted]">>
FailureMsg == Msg("assistant", FailureText, Undef, Undef, Undef)

Event(type, content, thinking, action, message, finished, time, duration) ==
    [type |-> type, content |-> content, thinking |-> thinking, action |-> action,
     message |-> message, finished |-> finished, time |-> time, duration |-> duration]

StatusEv(c) == Event("status", c, Undef, NoAction, Undef, FALSE, Undef, Undef)
StepEv(th, act, m, fin) == Event("step", Undef, th, act, m, fin, Undef, Undef)
DoneEv(c, t, d) == Event("done", c, Undef, NoAction, Undef, FALSE, t, d)
ErrorEv(c) == Event("error", c, Undef, NoAction, Undef, FALSE, Undef, Undef)
OtherEv == Event("log", <<"c">>, Undef, NoAction, Undef, FALSE, Undef, Undef)

\* the literals '执行动作: ' and '\n执行结果: ', one symbol per literal after the newline
ActionPrefix == <<"[action]: ">>
ResultPrefix == <<NL, "[result]: ">>

\* `执行动作: ${JSON.stringify(event.action)}`
RenderAction(act) == ActionPrefix \o Stringify(act)

(***************************************************************************)
(* The transcript reducer: the updater sendMessage passes to setMessages   *)
(* for each decoded record.                                                *)
(***************************************************************************)
LastMsg(msgs) == msgs[Len(msgs)]

ReplaceLastMutAppend(msgs, m) == Append(msgs, m)

\* newMsgs.map((m, i) => i === newMsgs.length - 1 ? {...} : m)
ReplaceLast(msgs, m) == [msgs EXCEPT ![Len(msgs)] = m]

\* lastMsg is undefined on an empty transcript: reading lastMsg.role throws
ReducerThrows(msgs, ev) == Len(msgs) = 0

StepThinkingMutNoAction(ev, old) ==
    LET base == IF Truthy(ev.thinking) THEN ev.thinking ELSE old
    IN  IF Truthy(ev.message) /\ ~ev.finished THEN base \o ResultPrefix \o ev.message ELSE base

\* the rendering of the action added to the thinking text, not put for it
StepThinkingMutKeepsPrior(ev, old) ==
    LET base == IF Truthy(ev.thinking) THEN ev.thinking ELSE old
        acted == IF ev.action # NoAction THEN base \o RenderAction(ev.action) ELSE base
    IN  IF Truthy(ev.message) /\ ~ev.finished THEN acted \o ResultPrefix \o ev.message ELSE acted

StepThinking(ev, old) ==
    LET base == IF Truthy(ev.thinking) THEN ev.thinking ELSE old
        acted == IF ev.action # NoAction THEN RenderAction(ev.action) ELSE base
    IN  IF Truthy(ev.message) /\ ~ev.finished THEN acted \o ResultPrefix \o ev.message ELSE acted

StepContentMutAlways(ev, old) ==
    IF Truthy(ev.message)
    THEN old \o (IF old # <<>> THEN <<NL>> ELSE <<>>) \o ev.message
    ELSE old

StepContent(ev, old) ==
    IF Truthy(ev.message) /\ ev.finished
    THEN old \o (IF old # <<>> THEN <<NL>> ELSE <<>>) \o ev.message
    ELSE old

DoneMsgMutAppend(m, ev) ==
    [m EXCEPT !.content = m.content \o ev.content, !.time = ev.time, !.duration = ev.duration]

DoneMsg(m, ev) ==
    [m EXCEPT !.content = ev.content, !.time = ev.time, !.duration = ev.duration]

\* a reducer that takes a message with a time, as done leaves it, as final
ApplyEventMutFinalized(msgs, ev) ==
    LET lastMsg == LastMsg(msgs)
    IN  IF lastMsg.role # "assistant" \/ lastMsg.time # Undef THEN msgs
        ELSE CASE ev.type = "status" ->
                    ReplaceLast(msgs, [lastMsg EXCEPT !.thinking = ev.content])
               [] ev.type = "step" ->
                    ReplaceLast(msgs, [lastMsg EXCEPT
                        !.thinking = StepThinking(ev, lastMsg.thinking),
                        !.content = StepContent(ev, lastMsg.content)])
               [] ev.type = "done" -> ReplaceLast(msgs, DoneMsg(lastMsg, ev))
               [] ev.type = "error" ->
                    ReplaceLast(msgs, [lastMsg EXCEPT !.content = ev.content])
               [] OTHER -> msgs

ApplyEvent(msgs, ev) ==
    LET lastMsg == LastMsg(msgs)
    IN  IF lastMsg.role # "assistant" THEN msgs
        ELSE CASE ev.type = "status" ->
                    ReplaceLast(msgs, [lastMsg EXCEPT !.thinking = ev.content])
               [] ev.type = "step" ->
                    ReplaceLast(msgs, [lastMsg EXCEPT
                        !.thinking = StepThinking(ev, lastMsg.thinking),
                        !.content = StepContent(ev, lastMsg.content)])
               [] ev.type = "done" -> ReplaceLast(msgs, DoneMsg(lastMsg, ev))
               [] ev.type = "error" ->
                    ReplaceLast(msgs, [lastMsg EXCEPT !.content = ev.content])
               [] OTHER -> msgs

(***************************************************************************)
(* Line framing and decoding of the response stream.                       *)
(***************************************************************************)
\* The bytes of a body: a byte below 0x80 is the symbol of its character; the
\* character U+00E9 is the two bytes 0xC3 0xA9.
LeadByte == "0xC3"
ContByte == "0xA9"
EAcute == "U+00E9"
Replacement == "U+FFFD"

\* TextDecoder.decode(value, { stream: true }), byte by byte: st is the text
\* put out and the lead byte held back for the next byte, also over the end
\* of a chunk
DecodeByte(st, b) ==
    IF st.held # <<>>
    THEN IF b = ContByte THEN [text |-> st.text \o <<EAcute>>, held |-> <<>>]
         ELSE IF b = LeadByte THEN [text |-> st.text \o <<Replacement>>, held |-> <<b>>]
         ELSE [text |-> st.text \o <<Replacement, b>>, held |-> <<>>]
    ELSE IF b = LeadByte THEN [text |-> st.text, held |-> <<b>>]
         ELSE IF b = ContByte THEN [text |-> st.text \o <<Replacement>>, held |-> <<>>]
         ELSE [text |-> st.text \o <<b>>, held |-> <<>>]

RECURSIVE DecodeFrom(_, _)
DecodeFrom(st, bytes) ==
    IF bytes = <<>> THEN st ELSE DecodeFrom(DecodeByte(st, Head(bytes)), Tail(bytes))

\* a decoder without { stream: true } flushes the byte it holds at the end of
\* each chunk
DecodeMutNoStream(held, bytes) ==
    LET st == DecodeFrom([text |-> <<>>, held |-> <<>>], bytes)
    IN  IF st.held = <<>> THEN st
        ELSE [text |-> st.text \o <<Replacement>>, held |-> <<>>]

Decode(held, bytes) == DecodeFrom([text |-> <<>>, held |-> held], bytes)

\* buffer.split('\n'): at least one line, the last one being the text after
\* the last newline
RECURSIVE Split(_)
Split(s) ==
    IF \A i \in 1..Len(s) : s[i] # NL THEN <<s>>
    ELSE LET k == CHOOSE i \in 1..Len(s) : s[i] = NL /\ \A j \in 1..(i - 1) : s[j] # NL
         IN  <<SubSeq(s, 1, k - 1)>> \o Split(SubSeq(s, k + 1, Len(s)))

\* A record of the stream is the text { k } of one event key k; EventOfKey
\* is the object JSON.parse returns for it.
EventKeys == {"S", "A", "M", "F", "D", "E", EAcute}

EventOfKey(k) ==
    CASE k = "S" -> StatusEv(<<"s">>)
      [] k = "A" -> StepEv(Undef, TapAction, Undef, FALSE)
      [] k = "M" -> StepEv(Undef, NoAction, <<"m">>, FALSE)
      [] k = "F" -> StepEv(Undef, NoAction, <<"f">>, TRUE)
      [] k = "D" -> DoneEv(<<"d">>, <<"t">>, <<"u">>)
      [] k = "E" -> ErrorEv(<<"e">>)
      [] k = EAcute -> StatusEv(<<EAcute>>)

RecordText(k) == <<"{", k, "}">>

\* JSON.parse(line): white space around the value is skipped, anything but
\* one complete record is a SyntaxError
ParseOk(line) ==
    LET t == Trim(line)
    IN  Len(t) = 3 /\ t[1] = "{" /\ t[3] = "}" /\ t[2] \in EventKeys

Parse(line) == EventOfKey(Trim(line)[2])

IsBlankMutEmptyOnly(line) == line = <<>>

\* if (!line.trim()) continue
IsBlank(line) == Trim(line) = <<>>

\* the lines of a chunk that JSON.parse is called with
Handed(lines) == SelectSeq(lines, LAMBDA l : ~IsBlank(l))

\* a line that does not parse ends the loop over the lines
RECURSIVE ApplyLinesMutBreak(_, _)
ApplyLinesMutBreak(st, lines) ==
    IF lines = <<>> \/ st.threw THEN st
    ELSE LET line == Head(lines)
         IN  IF IsBlank(line) THEN ApplyLinesMutBreak(st, Tail(lines))
             ELSE IF ~ParseOk(line) THEN st
             ELSE IF ReducerThrows(st.msgs, Parse(line))
                  THEN [st EXCEPT !.threw = TRUE]
                  ELSE ApplyLinesMutBreak([st EXCEPT !.msgs = ApplyEvent(st.msgs, Parse(line))],
                                          Tail(lines))

\* the lines of a chunk are gone through from the last to the first
RECURSIVE ApplyLinesMutReversed(_, _)
ApplyLinesMutReversed(st, lines) ==
    IF lines = <<>> \/ st.threw THEN st
    ELSE LET line == lines[Len(lines)]
             rest == SubSeq(lines, 1, Len(lines) - 1)
         IN  IF IsBlank(line) \/ ~ParseOk(line) THEN ApplyLinesMutReversed(st, rest)
             ELSE IF ReducerThrows(st.msgs, Parse(line))
                  THEN [st EXCEPT !.threw = TRUE]
                  ELSE ApplyLinesMutReversed(
                           [st EXCEPT !.msgs = ApplyEvent(st.msgs, Parse(line))], rest)

\* for (const line of lines): blank lines are skipped, a line that does not
\* parse is logged and skipped, every other line runs the reducer.
\* The result is the transcript, and whether an updater threw.
RECURSIVE ApplyLines(_, _)
ApplyLines(st, lines) ==
    IF lines = <<>> \/ st.threw THEN st
    ELSE LET line == Head(lines)
         IN  IF IsBlank(line) \/ ~ParseOk(line) THEN ApplyLines(st, Tail(lines))
             ELSE IF ReducerThrows(st.msgs, Parse(line))
                  THEN [st EXCEPT !.threw = TRUE]
                  ELSE ApplyLines([st EXCEPT !.msgs = ApplyEvent(st.msgs, Parse(line))],
                                  Tail(lines))

\* buffer += chunk; lines = buffer.split('\n'); buffer = lines.pop() || ''
FrameLines(buffer, chunk) ==
    LET all == Split(buffer \o chunk)
    IN  SubSeq(all, 1, Len(all) - 1)

FrameRest(buffer, chunk) ==
    LET all == Split(buffer \o chunk)
    IN  all[Len(all)]

(***************************************************************************)
(* State of one mounted ChatView and of its collaborators.                 *)
(***************************************************************************)
VARIABLES
    input,        \* useState('')       the text of the textarea
    messages,     \* useState([])       the transcript
    loading,      \* useState(false)
    stopping,     \* useState(false)
    isStreaming,  \* useRef(false)
    prevLoading,  \* useRef(false)
    crashed,      \* an updater threw while rendering: the view is unmounted
    timer,        \* useState(0)        the elapsed seconds
    isLoopMode,   \* useState(false)
    loopCount,    \* useState(1)
    calls,        \* the sendMessage calls: where each one is suspended
    polls,        \* the /api/status responses in flight
    hist,         \* the /api/history requests in flight, by kind
    remote,       \* what the remote side would report as its run status
    start,        \* reducer specification: the transcript it started from
    applied,      \* reducer specification: the events applied so far
    prev,         \* reducer specification: the transcript before the last event
    wire,         \* framing specification: the bytes of the body still to come
    delivered,    \* framing specification: the bytes of the body read so far
    fed,          \* framing specification: the lines handed to JSON.parse so far
    deviceConnected,  \* ADBControlView: useState(false)
    adbLoading,       \* ADBControlView: useState({}), the loading object
    adbRequests       \* ADBControlView: the handler calls awaiting their request

vars == <<input, messages, loading, stopping, isStreaming, prevLoading, crashed,
          timer, isLoopMode, loopCount,
          calls, polls, hist, remote, start, applied, prev, wire, delivered, fed,
          deviceConnected, adbLoading, adbRequests>>

ctl == <<input, messages, loading, stopping, isStreaming, prevLoading, crashed,
         timer, isLoopMode, loopCount>>
net == <<calls, polls, hist, remote>>
red == <<start, applied, prev, wire, delivered, fed>>
adb == <<deviceConnected, adbLoading, adbRequests>>

\* the operations of ADBControlView and its loading object before any
\* handler has run: no key is set.  A key is unset, true or false.
Operations == {"reboot", "install", "screenshot"}
Unset == "unset"
On == "true"
Off == "false"
NoFlags == [op \in Operations |-> Unset]

InitADB ==
    /\ deviceConnected = FALSE
    /\ adbLoading = NoFlags
    /\ adbRequests = {}

CallIds == 1..MaxSends

\* a sendMessage call: where it is suspended, whether its request has
\* arrived, the loop_count and the number of its /api/chat requests, the
\* bytes its TextDecoder holds back, its buffer, the chunks it has read
NoCall == [pc |-> "none", arrived |-> FALSE, loop_count |-> 0, requests |-> 0,
           decoder |-> <<>>, buffer |-> <<>>, reads |-> 0]

Active(c) == c.pc \in {"fetch", "read"}
ActiveCalls == {i \in CallIds : Active(calls[i])}
nSends == Cardinality({i \in CallIds : calls[i].pc # "none"})

\* what the textarea can hold
Inputs == {<<>>, <<SP>>, <<"a">>}

\* the chunks a response stream delivers: a complete record line, and the
\* first part of a record
Chunks == {RecordText("D") \o <<NL>>, <<"{", "S">>}
\* a stream of complete record lines, one per chunk
LineChunks == {RecordText("D") \o <<NL>>}

\* the histories /api/history answers with
HUser == Msg("user", <<"q">>, Undef, <<"t">>, Undef)
HAsst == Msg("assistant", <<"h">>, Undef, <<"t">>, <<"u">>)
Histories == {<<>>, <<HUser, HAsst>>}
\* a cleared or never written history
EmptyHistories == {<<>>}
\* whether an answer of /api/status carries the stopping property
StatusShapes == BOOLEAN
FullStatus == {TRUE}

Init ==
    /\ input = <<>>
    /\ messages = <<>>
    /\ loading = FALSE
    /\ stopping = FALSE
    /\ isStreaming = FALSE
    /\ prevLoading = FALSE
    /\ crashed = FALSE
    /\ timer = 0
    /\ isLoopMode = FALSE
    /\ loopCount = 1
    /\ calls = [i \in CallIds |-> NoCall]
    /\ polls = {}
    /\ hist = [load |-> 1, refresh |-> 0, clear |-> 0]
    /\ remote = [running |-> FALSE, stopping |-> FALSE]
    /\ start = <<>>
    /\ applied = <<>>
    /\ prev = <<>>
    /\ wire = <<>>
    /\ delivered = <<>>
    /\ fed = <<>>
    /\ InitADB

(***************************************************************************)
(* The effect on [loading]: it runs after a render in which loading has    *)
(* changed, with the values the handler left.                              *)
(***************************************************************************)
\* the test of the streaming flag the wrong way round
RefreshWantedMutWhileStreaming(wasLoading, nowLoading, streaming) ==
    wasLoading /\ ~nowLoading /\ streaming

\* if (prevLoading.current && !loading && !isStreaming.current)
RefreshWanted(wasLoading, nowLoading, streaming) ==
    wasLoading /\ ~nowLoading /\ ~streaming

IssueRefresh(h) == [h EXCEPT !.refresh = IF @ < MaxHist THEN @ + 1 ELSE @]

LoadingEffect(nowLoading, streaming) ==
    IF nowLoading # loading
    THEN /\ hist' = IF RefreshWanted(prevLoading, nowLoading, streaming)
                    THEN IssueRefresh(hist) ELSE hist
         /\ prevLoading' = nowLoading
    ELSE UNCHANGED <<hist, prevLoading>>

(***************************************************************************)
(* The effect on [loading, stopping]: it runs after a render in which one  *)
(* of the two has changed; it clears the interval and either sets a new    *)
(* one or resets the timer.                                                *)
(***************************************************************************)
TimerAfterMutNoReset(wasLoading, wasStopping, nowLoading, nowStopping, t) == t

\* an effect that resets the timer whenever it runs
TimerAfterMutResetOnChange(wasLoading, wasStopping, nowLoading, nowStopping, t) ==
    IF nowLoading # wasLoading \/ nowStopping # wasStopping THEN 0 ELSE t

TimerAfter(wasLoading, wasStopping, nowLoading, nowStopping, t) ==
    IF (nowLoading # wasLoading \/ nowStopping # wasStopping)
       /\ ~(nowLoading \/ nowStopping)
    THEN 0 ELSE t

TimerEffect(nowLoading, nowStopping) ==
    timer' = TimerAfter(loading, stopping, nowLoading, nowStopping, timer)

\* the interval set while loading || stopping fires: setTimer(t => t + 1)
Tick ==
    /\ ~crashed /\ (loading \/ stopping)
    /\ timer < MaxTimer
    /\ timer' = timer + 1
    /\ UNCHANGED <<input, messages, loading, stopping, isStreaming, prevLoading, crashed,
                   isLoopMode, loopCount>>
    /\ UNCHANGED <<net, red, adb>>

(***************************************************************************)
(* The user.                                                               *)
(***************************************************************************)
\* onChange of the textarea, which is disabled while loading
SetInput(v) ==
    /\ ~crashed /\ ~loading
    /\ input' = v
    /\ UNCHANGED <<messages, loading, stopping, isStreaming, prevLoading, crashed,
                   timer, isLoopMode, loopCount>>
    /\ UNCHANGED <<net, red, adb>>

\* the loop mode switch
ToggleLoopMode ==
    /\ ~crashed
    /\ isLoopMode' = ~isLoopMode
    /\ UNCHANGED <<input, messages, loading, stopping, isStreaming, prevLoading, crashed,
                   timer, loopCount>>
    /\ UNCHANGED <<net, red, adb>>

\* what parseInt makes of the text of the loop count field: no number
\* (NaN) is <<>>, the number n is <<n>>
NaN == <<>>

\* the texts the loop count field can hold: the empty text, numbers with
\* and without sign, with a fraction, with an exponent
FieldTexts ==
    {NumStr(n) : n \in 0..MaxLoopCount}
        \cup {<<>>, <<"-">> \o NumStr(1), <<"+">> \o NumStr(2), <<"-">> \o NumStr(0),
              <<"1", ".", "5">>, <<".", "5">>, <<"2", "e", "1">>}

IsDigit(c) == \E d \in 0..9 : Digit(d) = c
DigitVal(c) == CHOOSE d \in 0..9 : Digit(d) = c

\* the digits a text starts with
RECURSIVE LeadingDigits(_)
LeadingDigits(s) ==
    IF s = <<>> \/ ~IsDigit(Head(s)) THEN <<>>
    ELSE <<Head(s)>> \o LeadingDigits(Tail(s))

RECURSIVE DigitsValue(_)
DigitsValue(ds) ==
    IF ds = <<>> THEN 0
    ELSE 10 * DigitsValue(SubSeq(ds, 1, Len(ds) - 1)) + DigitVal(ds[Len(ds)])

\* parseInt(text): white space is skipped, then a sign and the digits that
\* follow are read; what comes after the digits is ignored
ParseInt(text) ==
    LET s == TrimLeft(text)
        signed == s # <<>> /\ Head(s) \in {"-", "+"}
        ds == LeadingDigits(IF signed THEN Tail(s) ELSE s)
    IN  IF ds = <<>> THEN NaN
        ELSE <<(IF signed /\ Head(s) = "-" THEN -1 ELSE 1) * DigitsValue(ds)>>

RawCounts == {ParseInt(t) : t \in FieldTexts}

\* a field without the lower limit of Math.max
LoopCountOfMutNoFloor(raw) == IF raw = NaN \/ raw = <<0>> THEN 1 ELSE raw[1]

\* Math.max(1, parseInt(e.target.value) || 1)
LoopCountOf(raw) ==
    LET n == IF raw = NaN \/ raw = <<0>> THEN 1 ELSE raw[1]
    IN  IF n > 1 THEN n ELSE 1

\* onChange of the loop count field, which is rendered in loop mode
SetLoopCount(raw) ==
    /\ ~crashed /\ isLoopMode
    /\ loopCount' = LoopCountOf(raw)
    /\ UNCHANGED <<input, messages, loading, stopping, isStreaming, prevLoading, crashed,
                   timer, isLoopMode>>
    /\ UNCHANGED <<net, red, adb>>

LoopCountSentMutAlways(mode, n) == n

\* loop_count: isLoopMode ? loopCount : 1
LoopCountSent(mode, n) == IF mode THEN n ELSE 1

\* if (!input.trim() || loading) return
SendGuardMutNoLoading(text, busy) == Trim(text) # <<>>

SendGuard(text, busy) == Trim(text) # <<>> /\ ~busy

\* sendMessage up to its first await
SendMessage ==
    /\ ~crashed
    /\ IF SendGuard(input, loading)
       THEN /\ nSends < MaxSends
            /\ input' = <<>>
            /\ messages' = Append(messages, UserMsg(input))
            /\ loading' = TRUE
            /\ isStreaming' = TRUE
            /\ calls' = [calls EXCEPT ![nSends + 1] =
                            [NoCall EXCEPT !.pc = "fetch",
                                           !.loop_count = LoopCountSent(isLoopMode, loopCount),
                                           !.requests = 1]]
            /\ LoadingEffect(TRUE, TRUE)
            /\ TimerEffect(TRUE, stopping)
            /\ UNCHANGED <<stopping, crashed, isLoopMode, loopCount, polls, remote>>
       ELSE UNCHANGED <<ctl, net>>
    /\ UNCHANGED <<red, adb>>

\* a stop handler that shows the stopping state at once
HandleStopMutLocal(arrives) ==
    /\ ~crashed /\ loading
    /\ remote' = IF arrives THEN [remote EXCEPT !.stopping = remote.running] ELSE remote
    /\ stopping' = TRUE
    /\ UNCHANGED <<input, messages, loading, isStreaming, prevLoading, crashed,
                   timer, isLoopMode, loopCount>>
    /\ UNCHANGED <<calls, polls, hist, red, adb>>

\* the stop button, rendered while loading: await fetch('/api/stop').  The
\* request arrives, and a running task starts stopping, or it is lost.
HandleStop(arrives) ==
    /\ ~crashed /\ loading
    /\ remote' = IF arrives THEN [remote EXCEPT !.stopping = remote.running] ELSE remote
    /\ UNCHANGED <<ctl, calls, polls, hist, red, adb>>

\* the clear button
ClearHistory ==
    /\ ~crashed
    /\ hist.clear < MaxHist
    /\ hist' = [hist EXCEPT !.clear = @ + 1]
    /\ UNCHANGED <<ctl, calls, polls, remote, red, adb>>

(***************************************************************************)
(* sendMessage after its first await.                                      *)
(***************************************************************************)
\* a finally block that leaves the streaming flag as it is
FinallyMutKeepsFlag(i) ==
    /\ isStreaming' = isStreaming
    /\ loading' = FALSE
    /\ calls' = [calls EXCEPT ![i] = [NoCall EXCEPT !.pc = "done",
                                                     !.loop_count = calls[i].loop_count,
                                                     !.requests = calls[i].requests]]
    /\ LoadingEffect(FALSE, isStreaming)
    /\ TimerEffect(FALSE, stopping)

\* finally { isStreaming.current = false; setLoading(false) }, the call over
Finally(i) ==
    /\ isStreaming' = FALSE
    /\ loading' = FALSE
    /\ calls' = [calls EXCEPT ![i] = [NoCall EXCEPT !.pc = "done",
                                                     !.loop_count = calls[i].loop_count,
                                                     !.requests = calls[i].requests]]
    /\ LoadingEffect(FALSE, FALSE)
    /\ TimerEffect(FALSE, stopping)

\* a catch block that turns the placeholder into the failure message
CatchMutOverwrites ==
    messages' = IF messages # <<>> /\ LastMsg(messages).role = "assistant"
                THEN ReplaceLast(messages, FailureMsg)
                ELSE Append(messages, FailureMsg)

\* a catch block that only logs the error
CatchMutSilent == messages' = messages

\* catch (e) { setMessages(prev => [...prev, failure message]) }
Catch == messages' = Append(messages, FailureMsg)

\* await fetch('/api/chat') rejects
FetchReject(i) ==
    /\ ~crashed /\ calls[i].pc = "fetch"
    /\ Catch
    /\ Finally(i)
    /\ UNCHANGED <<input, stopping, crashed, isLoopMode, loopCount, polls, remote, red, adb>>

\* if (!response.body) throw new Error("No response body")
FetchNoBody(i) ==
    /\ ~crashed /\ calls[i].pc = "fetch" /\ calls[i].arrived
    /\ Catch
    /\ Finally(i)
    /\ UNCHANGED <<input, stopping, crashed, isLoopMode, loopCount, polls, remote, red, adb>>

\* the response has a body: the placeholder is appended, the loop is entered
FetchOk(i) ==
    /\ ~crashed /\ calls[i].pc = "fetch" /\ calls[i].arrived
    /\ messages' = Append(messages, Placeholder)
    /\ calls' = [calls EXCEPT ![i] = [@ EXCEPT !.pc = "read"]]
    /\ UNCHANGED <<input, loading, stopping, isStreaming, prevLoading, crashed,
                   timer, isLoopMode, loopCount>>
    /\ UNCHANGED <<polls, hist, remote, red, adb>>

\* reader.read() yields a chunk of bytes: it is decoded and added to the
\* buffer, the complete lines are parsed and applied, the rest is kept.
\* reads is the number of chunks the call has then read, as far as counted.
ReadLoopBody(i, chunk, reads) ==
    /\ ~crashed /\ calls[i].pc = "read"
    /\ LET d == Decode(calls[i].decoder, chunk)
           r == ApplyLines([msgs |-> messages, threw |-> FALSE],
                           FrameLines(calls[i].buffer, d.text))
       IN  /\ messages' = r.msgs
           /\ crashed' = r.threw
           /\ calls' = [calls EXCEPT ![i] =
                            [@ EXCEPT !.decoder = d.held,
                                      !.buffer = FrameRest(calls[i].buffer, d.text),
                                      !.reads = reads]]
    /\ UNCHANGED <<input, loading, stopping, isStreaming, prevLoading,
                   timer, isLoopMode, loopCount>>
    /\ UNCHANGED <<polls, hist, remote>>

ReadChunk(i, chunk) ==
    /\ calls[i].reads < MaxChunks
    /\ ReadLoopBody(i, chunk, calls[i].reads + 1)
    /\ UNCHANGED <<red, adb>>

\* reader.read() yields done: break
ReadDone(i) ==
    /\ ~crashed /\ calls[i].pc = "read"
    /\ Finally(i)
    /\ UNCHANGED <<input, messages, stopping, crashed, isLoopMode, loopCount,
                   polls, remote, red, adb>>

\* reader.read() rejects
ReadError(i) ==
    /\ ~crashed /\ calls[i].pc = "read"
    /\ Catch
    /\ Finally(i)
    /\ UNCHANGED <<input, stopping, crashed, isLoopMode, loopCount, polls, remote, red, adb>>

(***************************************************************************)
(* checkStatus, every 2 s.                                                 *)
(***************************************************************************)
\* fetch('/api/status'): the answer is what the remote side reports now
PollTick(withStopping) ==
    /\ ~crashed
    /\ Cardinality(polls) < MaxPolls
    /\ polls' = polls \cup {[running |-> remote.running, stopping |-> remote.stopping,
                             hasStopping |-> withStopping]}
    /\ UNCHANGED <<ctl, calls, hist, remote, red, adb>>

PollRuleMutOnlyRaise(was, running) == IF running /\ ~was THEN TRUE ELSE was

PollRuleMutOnlyLower(was, running) == IF ~running /\ was THEN FALSE ELSE was

PollRuleMutYieldsToStream(was, running) ==
    IF running /\ ~was THEN TRUE
    ELSE IF ~running /\ was /\ ~isStreaming THEN FALSE
    ELSE was

\* setLoading(prev => ...)
PollRule(was, running) ==
    IF running /\ ~was THEN TRUE
    ELSE IF ~running /\ was THEN FALSE
    ELSE was

\* a poller that only ever raises stopping
StoppingAfterMutSticky(was, p) == IF p.hasStopping THEN (was \/ p.stopping) ELSE was

\* if (data.stopping !== undefined) setStopping(data.stopping)
StoppingAfter(was, p) == IF p.hasStopping THEN p.stopping ELSE was

\* a poller that also empties the transcript when it lowers loading
PollApplyMutWritesTranscript(p) ==
    /\ ~crashed /\ p \in polls
    /\ polls' = polls \ {p}
    /\ stopping' = StoppingAfter(stopping, p)
    /\ loading' = PollRule(loading, p.running)
    /\ messages' = IF loading /\ ~p.running THEN <<>> ELSE messages
    /\ LoadingEffect(PollRule(loading, p.running), isStreaming)
    /\ TimerEffect(PollRule(loading, p.running), StoppingAfter(stopping, p))
    /\ UNCHANGED <<input, isStreaming, crashed, isLoopMode, loopCount,
                   calls, remote, red, adb>>

\* the answer arrives and is applied
PollApply(p) ==
    /\ ~crashed /\ p \in polls
    /\ polls' = polls \ {p}
    /\ stopping' = StoppingAfter(stopping, p)
    /\ loading' = PollRule(loading, p.running)
    /\ LoadingEffect(PollRule(loading, p.running), isStreaming)
    /\ TimerEffect(PollRule(loading, p.running), StoppingAfter(stopping, p))
    /\ UNCHANGED <<input, messages, isStreaming, crashed, isLoopMode, loopCount,
                   calls, remote, red, adb>>

\* a poller that takes a failed request for a remote side that is idle
PollFailMutAssumesIdle(p) ==
    /\ ~crashed /\ p \in polls
    /\ polls' = polls \ {p}
    /\ stopping' = FALSE
    /\ loading' = FALSE
    /\ LoadingEffect(FALSE, isStreaming)
    /\ TimerEffect(FALSE, FALSE)
    /\ UNCHANGED <<input, messages, isStreaming, crashed, isLoopMode, loopCount,
                   calls, remote, red, adb>>

\* the request rejects or its body does not parse: catch (e) { console.error(e) }
PollFail(p) ==
    /\ ~crashed /\ p \in polls
    /\ polls' = polls \ {p}
    /\ UNCHANGED <<ctl, calls, hist, remote, red, adb>>

(***************************************************************************)
(* The answers to /api/history: the load on mount, the refresh of the      *)
(* effect on [loading], and clearHistory.                                  *)
(***************************************************************************)
HistoryKinds == {"load", "refresh", "clear"}

\* an answer that is added to the transcript instead of replacing it
HistoryAnswerMutAppends(kind, h) ==
    /\ ~crashed /\ hist[kind] > 0
    /\ hist' = [hist EXCEPT ![kind] = @ - 1]
    /\ messages' = messages \o h
    /\ UNCHANGED <<input, loading, stopping, isStreaming, prevLoading, crashed,
                   timer, isLoopMode, loopCount>>
    /\ UNCHANGED <<calls, polls, remote, red, adb>>

\* if (data.history) setMessages(data.history)
HistoryAnswer(kind, h) ==
    /\ ~crashed /\ hist[kind] > 0
    /\ hist' = [hist EXCEPT ![kind] = @ - 1]
    /\ messages' = h
    /\ UNCHANGED <<input, loading, stopping, isStreaming, prevLoading, crashed,
                   timer, isLoopMode, loopCount>>
    /\ UNCHANGED <<calls, polls, remote, red, adb>>

\* the request fails, or the answer carries no history
HistoryNone(kind) ==
    /\ ~crashed /\ hist[kind] > 0
    /\ hist' = [hist EXCEPT ![kind] = @ - 1]
    /\ UNCHANGED <<ctl, calls, polls, remote, red, adb>>

(***************************************************************************)
(* The remote side.                                                        *)
(***************************************************************************)
\* the /api/chat request of call i arrives and the task starts
RemoteStart(i) ==
    /\ calls[i].pc = "fetch" /\ ~calls[i].arrived
    /\ calls' = [calls EXCEPT ![i] = [@ EXCEPT !.arrived = TRUE]]
    /\ remote' = [remote EXCEPT !.running = TRUE]
    /\ UNCHANGED <<ctl, polls, hist, red, adb>>

\* the task ends
RemoteFinish ==
    /\ remote.running
    /\ remote' = [running |-> FALSE, stopping |-> FALSE]
    /\ UNCHANGED <<ctl, calls, polls, hist, red, adb>>

\* One step of the view or of the remote side, the remote side answering
\* /api/history with a history of H, streams delivering chunks of C, and
\* /api/status answering in the shapes W.
Step(H, C, W) ==
    \/ \E v \in Inputs : SetInput(v)
    \/ SendMessage
    \/ \E b \in BOOLEAN : HandleStop(b)
    \/ ClearHistory
    \/ \E i \in CallIds : FetchReject(i)
    \/ \E i \in CallIds : FetchNoBody(i)
    \/ \E i \in CallIds : FetchOk(i)
    \/ \E i \in CallIds : \E c \in C : ReadChunk(i, c)
    \/ \E i \in CallIds : ReadDone(i)
    \/ \E i \in CallIds : ReadError(i)
    \/ \E b \in W : PollTick(b)
    \/ \E p \in polls : PollApply(p)
    \/ \E p \in polls : PollFail(p)
    \/ \E k \in HistoryKinds : \E h \in H : HistoryAnswer(k, h)
    \/ \E k \in HistoryKinds : HistoryNone(k)
    \/ \E i \in CallIds : RemoteStart(i)
    \/ RemoteFinish

Next == Step(EmptyHistories, LineChunks, FullStatus)

Spec == Init /\ [][Next]_vars

\* The same with the fairness of setInterval(checkStatus, 2000): while the
\* view is mounted, a status request is sent again and again.
NextLive == Next /\ nSends' <= MaxLiveSends

FairSpec == Init /\ [][NextLive]_vars /\ WF_vars(PollTick(TRUE))

\* The view with its clock and its loop mode controls.
NextView ==
    \/ NextLive
    \/ Tick
    \/ ToggleLoopMode
    \/ \E raw \in RawCounts : SetLoopCount(raw)

ViewSpec == Init /\ [][NextView]_vars

\* The view with its clock and a remote side whose persisted history is
\* empty or holds an earlier exchange.
NextHistory ==
    \/ Step(Histories, LineChunks, FullStatus) /\ nSends' <= MaxLiveSends
    \/ Tick

HistorySpec == Init /\ [][NextHistory]_vars

(***************************************************************************)
(* The read loop of one sendMessage call alone: the body of its response   *)
(* arrives in chunks cut at any byte, then the stream ends.                *)
(***************************************************************************)
\* the bytes of a text
RECURSIVE Encode(_)
Encode(text) ==
    IF text = <<>> THEN <<>>
    ELSE (IF Head(text) = EAcute THEN <<LeadByte, ContByte>> ELSE <<Head(text)>>)
         \o Encode(Tail(text))

\* the lines of a body: records, an empty line, a line of white space, a
\* record cut short
BodyLines ==
    {Encode(RecordText(k)) : k \in {"S", "D", EAcute}} \cup {<<>>, <<SP>>, <<"{", "S">>}

RECURSIVE Terminated(_)
Terminated(n) ==
    IF n = 0 THEN {<<>>}
    ELSE {l \o <<NL>> \o r : l \in BodyLines, r \in Terminated(n - 1)}

\* up to MaxLines lines ended by a newline each, then a last line without
\* newline or nothing
Bodies == UNION {{p \o t : p \in Terminated(n), t \in BodyLines} : n \in 0..MaxLines}

\* the first submission has its response: sendMessage has appended the
\* placeholder and enters the loop
InitFramer ==
    /\ input = <<>>
    /\ messages = <<UserMsg(<<"a">>), Placeholder>>
    /\ loading = TRUE
    /\ stopping = FALSE
    /\ isStreaming = TRUE
    /\ prevLoading = TRUE
    /\ crashed = FALSE
    /\ timer = 0
    /\ isLoopMode = FALSE
    /\ loopCount = 1
    /\ calls = [i \in CallIds |->
                  IF i = 1 THEN [NoCall EXCEPT !.pc = "read", !.arrived = TRUE,
                                               !.loop_count = 1, !.requests = 1]
                  ELSE NoCall]
    /\ polls = {}
    /\ hist = [load |-> 0, refresh |-> 0, clear |-> 0]
    /\ remote = [running |-> TRUE, stopping |-> FALSE]
    /\ start = messages
    /\ applied = <<>>
    /\ prev = <<>>
    /\ wire \in Bodies
    /\ delivered = <<>>
    /\ fed = <<>>
    /\ InitADB

\* reader.read() yields the next n bytes of the body
Feed(n) ==
    /\ n \in 1..Len(wire)
    /\ LET chunk == SubSeq(wire, 1, n)
       IN  /\ ReadLoopBody(1, chunk, 0)
           /\ wire' = SubSeq(wire, n + 1, Len(wire))
           /\ delivered' = delivered \o chunk
           /\ fed' = fed \o Handed(FrameLines(calls[1].buffer,
                                               Decode(calls[1].decoder, chunk).text))
    /\ UNCHANGED <<start, applied, prev, adb>>

\* the body is through: reader.read() yields done
StreamEnd == wire = <<>> /\ ReadDone(1)

NextFramer ==
    \/ \E n \in 1..Len(wire) : Feed(n)
    \/ StreamEnd

FramerSpec == InitFramer /\ [][NextFramer]_vars

(***************************************************************************)
(* ADBControlView: three buttons, each with a handler that sets its key of *)
(* the loading object, awaits its request and clears the key again.  A     *)
(* handler is a closure of the render in which the button was clicked: the *)
(* loading it spreads, before and after the await, is the object of that   *)
(* render.                                                                 *)
(***************************************************************************)
\* the button of an operation is disabled while loading[op] is truthy
Flag(l, op) == l[op] = On

\* fetchStatus: if (data.device_connected !== undefined) setDeviceConnected(...)
FetchStatus(connected) ==
    /\ deviceConnected' = connected
    /\ UNCHANGED <<adbLoading, adbRequests>>
    /\ UNCHANGED <<ctl, net, red>>

\* finally { setLoading({ ...loading, [op]: false }) }, loading being the
\* object the handler call r has seen
SettledFlags(current, r) == [r.seen EXCEPT ![r.op] = Off]

\* handleReboot, handleInstall, handleScreenshot up to the await: a click
\* on the button of op, the guard, setLoading({ ...loading, [op]: true }),
\* and the request is sent
HandleStart(op) ==
    /\ deviceConnected /\ ~Flag(adbLoading, op)
    /\ Cardinality(adbRequests) < MaxRequests
    /\ [op |-> op, seen |-> adbLoading] \notin adbRequests
    /\ adbLoading' = [adbLoading EXCEPT ![op] = On]
    /\ adbRequests' = adbRequests \cup {[op |-> op, seen |-> adbLoading]}
    /\ UNCHANGED deviceConnected
    /\ UNCHANGED <<ctl, net, red>>

\* the request of the handler call r is answered or fails: the alert, then
\* the finally block
HandleSettle(r) ==
    /\ r \in adbRequests
    /\ adbLoading' = SettledFlags(adbLoading, r)
    /\ adbRequests' = adbRequests \ {r}
    /\ UNCHANGED deviceConnected
    /\ UNCHANGED <<ctl, net, red>>

NextADB ==
    \/ \E b \in BOOLEAN : FetchStatus(b)
    \/ \E op \in Operations : HandleStart(op)
    \/ \E r \in adbRequests : HandleSettle(r)

ADBSpec == Init /\ [][NextADB]_vars

\* the operations whose request is in flight
InFlight == {r.op : r \in adbRequests}

\* steps of sendMessage, seen from outside
SendAccepted == SendMessage /\ calls' # calls
SendRefused == SendMessage /\ ~(Trim(input) # <<>> /\ ~loading)
PollApplied == \E p \in polls : PollApply(p)

(***************************************************************************)
(* C1 as claimed: there is never more than one sendMessage call between    *)
(* its accepted guard and its finally block.                               *)
(***************************************************************************)
C1_AtMostOneStream == Cardinality(ActiveCalls) <= 1

(***************************************************************************)
(* C2: a send is accepted only with a non-blank input and loading false;   *)
(* with a blank input or loading true, sendMessage appends no message,     *)
(* sends no request and leaves input, loading, stopping and the streaming  *)
(* flag as they are.                                                       *)
(***************************************************************************)
C2_SendGuard ==
    [][/\ SendAccepted => (Trim(input) # <<>> /\ ~loading)
       /\ SendRefused =>
            UNCHANGED <<messages, calls, input, loading, stopping, isStreaming>>]_vars

\* sendMessage is refused here for loading alone (loading was raised by a
\* status answer after the text was typed), and the refusal leaves this state
C2_Witness ==
    /\ loading /\ input = <<"a">> /\ nSends < MaxSends
    /\ ActiveCalls # {}

(***************************************************************************)
(* C3: after a status answer is applied, loading equals the running value  *)
(* it carries, for every combination of the two, so that applying the same *)
(* answer again changes nothing.                                           *)
(***************************************************************************)
C3_PollOverride ==
    [][\A p \in polls : PollApply(p) =>
          /\ loading' = p.running
          /\ PollRule(loading', p.running) = loading']_vars

\* loading is false while a stream is read: a status answer has lowered it
C3_Witness == ~loading /\ isStreaming /\ \E i \in CallIds : calls[i].pc = "read"

(***************************************************************************)
(* C4: no zombie state in either direction: a stream that ends by a        *)
(* transport error sets loading false, the next status answer reporting    *)
(* running=true sets it true again, and a status answer reporting          *)
(* running=false sets it false even while a stream is still being read.    *)
(***************************************************************************)
C4_NoZombie ==
    [][/\ \A i \in CallIds : (ReadError(i) \/ FetchReject(i)) => ~loading'
       /\ \A p \in polls : (PollApply(p) /\ p.running /\ ActiveCalls = {}) => loading'
       /\ \A p \in polls : (PollApply(p) /\ ~p.running /\ ActiveCalls # {}) => ~loading']_vars

\* the stream has ended by an error, the remote side still runs, and a
\* status answer has raised loading again
C4_Witness ==
    /\ ActiveCalls = {} /\ nSends = 1
    /\ messages = <<UserMsg(<<"a">>), Placeholder, FailureMsg>>
    /\ remote.running /\ loading

(***************************************************************************)
(* C5: if status answers keep being applied and the remote side ends up    *)
(* reporting running=false and stopping=false for good, then loading and   *)
(* stopping end up false for good, whatever has happened to the stream.    *)
(***************************************************************************)
RemoteIdle == ~remote.running /\ ~remote.stopping

C5_ReturnsToIdle ==
    ([]<><<PollApplied>>_vars /\ <>[]RemoteIdle) => <>[](~loading /\ ~stopping)

\* the request of a submission is still unanswered, and the view is idle
C5_Witness ==
    /\ \E i \in CallIds : calls[i].pc = "fetch"
    /\ RemoteIdle /\ ~loading /\ ~stopping

(***************************************************************************)
(* C6 as claimed: every accepted submission is followed by a history       *)
(* refresh once its stream has ended and loading has settled to false.     *)
(* When the stream ends with the run settled (no other call, the remote    *)
(* side not running, no status answer in flight that reports running), no  *)
(* later step of this submission can issue the refresh: it has to be in    *)
(* flight by then.                                                         *)
(***************************************************************************)
Settled ==
    /\ ActiveCalls = {} /\ ~loading /\ ~remote.running
    /\ \A p \in polls : ~p.running

C6_RefreshFollows ==
    [][\A i \in CallIds : ((ReadDone(i) \/ ReadError(i)) /\ Settled') => hist'.refresh > 0]_vars

(***************************************************************************)
(* C7 as claimed: an accepted send with input X extends the transcript by  *)
(* the user message for X and the empty assistant placeholder and sets     *)
(* loading, on every path of the submission.                               *)
(***************************************************************************)
C7_Original ==
    [][SendAccepted =>
          /\ messages' = messages \o <<Msg("user", input, Undef, <<"...">>, Undef),
                                        Msg("assistant", <<>>, <<>>, Undef, Undef)>>
          /\ loading']_vars

\* C7 as amended: the accepted send appends the user message alone and sets
\* loading; the empty placeholder is appended when the response with a body
\* is there, before any record of the stream is read; a request that fails
\* or a response without body appends the failure message and no placeholder.
C7_SendAppends ==
    [][/\ SendAccepted =>
            /\ messages' = Append(messages, Msg("user", input, Undef, <<"...">>, Undef))
            /\ loading'
       /\ \A i \in CallIds :
            FetchOk(i) =>
               /\ messages' = Append(messages, Msg("assistant", <<>>, <<>>, Undef, Undef))
               /\ calls[i].reads = 0 /\ calls'[i].reads = 0 /\ calls'[i].buffer = <<>>
       /\ \A i \in CallIds :
            (FetchReject(i) \/ FetchNoBody(i)) =>
               messages' = Append(messages, Msg("assistant", FailureText, Undef, Undef, Undef))]_vars

\* the submission of "a" has its response: user message, then placeholder
C7_Witness ==
    /\ \E i \in CallIds : calls[i].pc = "read" /\ calls[i].reads = 0
    /\ messages = <<Msg("user", <<"a">>, Undef, <<"...">>, Undef),
                    Msg("assistant", <<>>, <<>>, Undef, Undef)>>
    /\ loading

(***************************************************************************)
(* The reducer alone: from a transcript of StartTranscripts, events of     *)
(* ReducerEvents are applied one after the other, as the updater of        *)
(* sendMessage applies them.                                               *)
(***************************************************************************)
StartTranscripts ==
    {<<UserMsg(<<"a">>), Placeholder>>, <<UserMsg(<<"a">>)>>, <<HUser, HAsst>>,
     <<UserMsg(<<"a">>), FailureMsg>>, <<>>}

StepEvents ==
    {StepEv(th, act, <<"X">>, fin) :
        th \in {Undef, <<"k">>}, act \in {NoAction, TapAction}, fin \in BOOLEAN}
    \cup {StepEv(th, act, Undef, FALSE) : th \in {Undef, <<"k">>}, act \in {NoAction, TapAction}}
    \cup {StepEv(Undef, NoAction, <<>>, fin) : fin \in BOOLEAN}
    \cup {StepEv(Undef, EmptyAction, Undef, FALSE)}
    \cup {StepEv(<<>>, NoAction, Undef, FALSE)}

ReducerEvents ==
    {StatusEv(<<"s">>), DoneEv(<<"F">>, <<"12:00">>, <<"1s">>), ErrorEv(<<"e">>), OtherEv}
        \cup StepEvents

InitReducer ==
    /\ messages \in StartTranscripts
    /\ start = messages
    /\ applied = <<>>
    /\ prev = messages
    /\ input = <<>>
    /\ loading = FALSE
    /\ stopping = FALSE
    /\ isStreaming = FALSE
    /\ prevLoading = FALSE
    /\ crashed = FALSE
    /\ timer = 0
    /\ isLoopMode = FALSE
    /\ loopCount = 1
    /\ calls = [i \in CallIds |-> NoCall]
    /\ polls = {}
    /\ hist = [load |-> 0, refresh |-> 0, clear |-> 0]
    /\ remote = [running |-> FALSE, stopping |-> FALSE]
    /\ wire = <<>>
    /\ delivered = <<>>
    /\ fed = <<>>
    /\ InitADB

\* setMessages(prev => ...) for one event
Reduce(ev) ==
    /\ ~crashed
    /\ Len(applied) < MaxApply
    /\ IF ReducerThrows(messages, ev)
       THEN crashed' = TRUE /\ messages' = messages
       ELSE crashed' = FALSE /\ messages' = ApplyEvent(messages, ev)
    /\ prev' = messages
    /\ applied' = Append(applied, ev)
    /\ UNCHANGED <<input, loading, stopping, isStreaming, prevLoading, start,
                   timer, isLoopMode, loopCount, wire, delivered, fed>>
    /\ UNCHANGED <<net, adb>>

NextReducer == \E ev \in ReducerEvents : Reduce(ev)

ReducerSpec == InitReducer /\ [][NextReducer]_vars

\* the text sub occurs in the text s
Contains(s, sub) ==
    \E i \in 1..(Len(s) - Len(sub) + 1) : SubSeq(s, i, i + Len(sub) - 1) = sub

\* the event applied last, and whether it reached an assistant message
LastEvent == applied[Len(applied)]
Reached == applied # <<>> /\ ~crashed /\ prev # <<>> /\ LastMsg(prev).role = "assistant"

(***************************************************************************)
(* C8: a stream of status, then a step carrying an action a, then done,    *)
(* applied to the empty assistant placeholder, leaves an assistant message *)
(* with exactly the content, time and duration of the done event and a     *)
(* thinking text that contains the rendering of a.                         *)
(***************************************************************************)
StatusStepDone ==
    /\ start = <<UserMsg(<<"a">>), Placeholder>>
    /\ Len(applied) = 3
    /\ applied[1].type = "status"
    /\ applied[2].type = "step" /\ applied[2].action # NoAction
    /\ applied[3].type = "done"

C8_StatusStepDone ==
    StatusStepDone =>
        /\ Len(messages) = 2
        /\ messages[1] = UserMsg(<<"a">>)
        /\ messages[2].role = "assistant"
        /\ messages[2].content = applied[3].content
        /\ messages[2].time = applied[3].time
        /\ messages[2].duration = applied[3].duration
        /\ Contains(messages[2].thinking, RenderAction(applied[2].action))

C8_Witness ==
    /\ StatusStepDone
    /\ applied[2].action = TapAction
    /\ messages[2].content = <<"F">>
    /\ messages[2].thinking = ActionPrefix \o
         <<"{", "\"", "t", "a", "p", "\"", ":", "[", "1", "0", "0", ",", "2", "0", "0", "]", "}">>

(***************************************************************************)
(* C9: a done event applied to the in-progress assistant message sets      *)
(* content, time and duration to exactly the event's values, whatever      *)
(* content earlier step events have accumulated.                           *)
(***************************************************************************)
C9_DoneOverwrites ==
    (Reached /\ LastEvent.type = "done") =>
        /\ LastMsg(messages).content = LastEvent.content
        /\ LastMsg(messages).time = LastEvent.time
        /\ LastMsg(messages).duration = LastEvent.duration

C9_Witness ==
    /\ Reached /\ LastEvent.type = "done"
    /\ Len(applied) = 3 /\ applied[1].type = "step" /\ applied[2].type = "step"
    /\ LastMsg(prev).content = <<"X", NL, "X">>
    /\ LastMsg(messages).content = <<"F">>

(***************************************************************************)
(* C10 as claimed: for a step event with a message X, finished=false       *)
(* leaves content alone and appends X to thinking as a result annotation,  *)
(* and finished=true makes content X (content empty before) or the old     *)
(* content, one newline and X (content non-empty before), thinking not     *)
(* receiving X.                                                            *)
(***************************************************************************)
\* thinking as the step leaves it before a result annotation is added
StepBase(ev, old) ==
    IF ev.action # NoAction THEN RenderAction(ev.action)
    ELSE IF Truthy(ev.thinking) THEN ev.thinking ELSE old

StepMessageRule(hasMessage) ==
    (Reached /\ LastEvent.type = "step" /\ hasMessage) =>
        LET X == LastEvent.message
            old == LastMsg(prev)
            new == LastMsg(messages)
        IN  IF LastEvent.finished
            THEN /\ new.content = IF old.content = <<>> THEN X ELSE old.content \o <<NL>> \o X
                 /\ new.thinking = StepBase(LastEvent, old.thinking)
            ELSE /\ new.content = old.content
                 /\ new.thinking = StepBase(LastEvent, old.thinking) \o ResultPrefix \o X

C10_Original == StepMessageRule(LastEvent.message # Undef)

\* C10 as amended: the same for a step event with a non-empty message X
C10_StepMessage == StepMessageRule(Truthy(LastEvent.message))

C10_Witness ==
    /\ Reached /\ LastEvent.type = "step" /\ LastEvent.message = <<"X">>
    /\ LastEvent.finished
    /\ LastMsg(prev).content = <<"X">>
    /\ LastMsg(messages).content = <<"X", NL, "X">>

(***************************************************************************)
(* C11: chunk-split invariance.  However the bytes of a body read so far   *)
(* were cut into chunks (in the middle of a record, in the middle of a     *)
(* character, several records in one chunk), the lines handed to           *)
(* JSON.parse, in order, are those handed when the same bytes are fed as   *)
(* one chunk.                                                              *)
(***************************************************************************)
\* the lines handed to JSON.parse when bytes arrive as one chunk
SingleFeed(bytes) == Handed(FrameLines(<<>>, Decode(<<>>, bytes).text))

C11_ChunkSplitInvariance == fed = SingleFeed(delivered)

\* the body {D}\n{U+00E9}\n, cut after the first byte of the character: the
\* first record has been handed, the second is in the buffer and the decoder
C11_Witness ==
    /\ fed = <<RecordText("D")>>
    /\ calls[1].buffer = <<"{">> /\ calls[1].decoder = <<LeadByte>>
    /\ wire = <<ContByte, "}", NL>>

(***************************************************************************)
(* C12 as claimed: when the stream ends, a residual buffer that is not     *)
(* blank (a last record without newline) is handed to JSON.parse and       *)
(* applied to the transcript as a last record; a blank residual is         *)
(* discarded.                                                              *)
(***************************************************************************)
C12_ResidualApplied ==
    [][StreamEnd =>
          IF IsBlank(calls[1].buffer)
          THEN messages' = messages
          ELSE messages' = ApplyLines([msgs |-> messages, threw |-> FALSE],
                                      <<calls[1].buffer>>).msgs]_vars

(***************************************************************************)
(* C13 as claimed: for every cut of a body into chunks, once the stream    *)
(* has ended each line of the body that is not blank has been handed to    *)
(* JSON.parse exactly once, in order: none twice, none dropped.            *)
(***************************************************************************)
\* the lines of a body that are not blank, the last one with or without
\* newline
Records(bytes) == SelectSeq(Split(Decode(<<>>, bytes).text), LAMBDA l : ~IsBlank(l))

C13_ExactlyOnce == (calls[1].pc = "done" /\ wire = <<>>) => fed = Records(delivered)

(***************************************************************************)
(* C14: a line that is empty or holds white space only is never handed to  *)
(* JSON.parse and never changes the transcript, wherever it stands in the  *)
(* body and however the body is cut into chunks: the transcript is the one *)
(* the complete lines without such lines give.                             *)
(***************************************************************************)
HasText(l) == \E j \in 1..Len(l) : l[j] \notin {SP, NL, "\t"}

\* the complete lines of the bytes read so far
CompleteLines(bytes) == FrameLines(<<>>, Decode(<<>>, bytes).text)

C14_BlankDiscarded ==
    /\ \A k \in 1..Len(fed) : HasText(fed[k])
    /\ messages = ApplyLines([msgs |-> start, threw |-> FALSE],
                             SelectSeq(CompleteLines(delivered), HasText)).msgs

\* a line of white space before a record, the record applied
C14_Witness ==
    /\ delivered = <<SP, NL>> \o RecordText("D") \o <<NL>>
    /\ fed = <<RecordText("D")>>
    /\ LastMsg(messages).content = <<"d">>

(***************************************************************************)
(* C15: a record that does not parse is dropped without any effect: the    *)
(* transcript is the one the records that parse give, so that no failure   *)
(* message is appended and every later record is still applied; loading,   *)
(* stopping and the streaming flag stay as they are and the loop goes on.  *)
(***************************************************************************)
WellFormed(l) == \E k \in EventKeys : Trim(l) = RecordText(k)

RECURSIVE ApplyAll(_, _)
ApplyAll(msgs, lines) ==
    IF lines = <<>> THEN msgs
    ELSE ApplyAll(ApplyEvent(msgs, EventOfKey(Trim(Head(lines))[2])), Tail(lines))

C15_MalformedDropped ==
    [][\A n \in 1..Len(wire) :
          Feed(n) =>
             /\ messages' = ApplyAll(messages,
                                SelectSeq(SubSeq(fed', Len(fed) + 1, Len(fed')), WellFormed))
             /\ UNCHANGED <<loading, stopping, isStreaming>>
             /\ calls'[1].pc = "read" /\ ~crashed']_vars

\* a record cut short, then a record: the second one has been applied
C15_Witness ==
    /\ fed = << <<"{", "S">>, RecordText("D") >>
    /\ messages = <<UserMsg(<<"a">>), Msg("assistant", <<"d">>, <<>>, <<"t">>, <<"u">>)>>
    /\ calls[1].pc = "read" /\ loading /\ isStreaming

(***************************************************************************)
(* C16 as claimed: applying an event to a transcript without in-progress   *)
(* assistant message (its last message is a user message, or it is empty,  *)
(* as after a clear or a load of the history during the stream) leaves the *)
(* transcript unchanged and raises no error.                               *)
(***************************************************************************)
C16_NoInProgress ==
    [][\A i \in CallIds : \A c \in LineChunks :
          (ReadChunk(i, c) /\ (messages = <<>> \/ LastMsg(messages).role # "assistant"))
             => (messages' = messages /\ ~crashed')]_vars

(***************************************************************************)
(* C17: applying a stream event (status, step, done, error or another      *)
(* type) never changes the length of the transcript and never changes a    *)
(* message below the last one.                                             *)
(***************************************************************************)
C17_OnlyLastChanges ==
    applied # <<>> =>
        /\ Len(messages) = Len(prev)
        /\ \A k \in 1..(Len(prev) - 1) : messages[k] = prev[k]

\* a step has changed the last of two messages
C17_Witness ==
    /\ Reached /\ LastEvent.type = "step" /\ Len(prev) = 2
    /\ messages[2] # prev[2] /\ messages[1] = prev[1]

(***************************************************************************)
(* C18: a stop request changes no local state: handleStop, its request     *)
(* arriving or lost, leaves the transcript, loading, stopping, the timer,  *)
(* the streaming flag and every sendMessage call as they are; a call       *)
(* leaves its read loop only by the end of the stream or a read error; and *)
(* stopping changes only when a status answer is applied.                  *)
(***************************************************************************)
C18_StopChangesNothing ==
    [][/\ \A b \in BOOLEAN :
            HandleStop(b) =>
               UNCHANGED <<messages, loading, stopping, timer, isStreaming, calls>>
       /\ \A i \in CallIds :
            (calls[i].pc = "read" /\ calls'[i].pc # "read") => (ReadDone(i) \/ ReadError(i))
       /\ stopping' # stopping => PollApplied]_vars

\* the stop request has arrived while the stream is read: the remote side
\* is stopping, the view does not show it yet and the loop goes on
C18_Witness ==
    /\ remote.stopping /\ ~stopping /\ loading /\ isStreaming
    /\ \E i \in CallIds : calls[i].pc = "read"
    /\ timer > 0

(***************************************************************************)
(* C19 as claimed: for a submission with loop_count = N > 1 the controller *)
(* goes through N cycles, each with a request of its own, one after the    *)
(* other: by the time the submission is over it has sent N requests.       *)
(***************************************************************************)
C19_Original ==
    \A i \in CallIds :
        (calls[i].pc = "done" /\ calls[i].loop_count > 1)
            => calls[i].requests = calls[i].loop_count

\* C19 as amended: a submission sends exactly one request, which carries
\* loop_count = N in loop mode and 1 otherwise; the controller sends no
\* request for the repetitions, which are left to the remote side.
C19_LoopDelegated ==
    [][/\ SendAccepted =>
            /\ calls'[nSends + 1].requests = 1
            /\ calls'[nSends + 1].loop_count = IF isLoopMode THEN loopCount ELSE 1
       /\ \A i \in CallIds :
            calls[i].pc # "none" =>
               /\ calls'[i].requests = calls[i].requests
               /\ calls'[i].loop_count = calls[i].loop_count]_vars

\* a submission with loop_count 2 is over and the view idle: one request
C19_Witness ==
    /\ \E i \in CallIds :
          calls[i].pc = "done" /\ calls[i].loop_count = 2 /\ calls[i].requests = 1
    /\ ~loading /\ ~remote.running /\ polls = {}

(***************************************************************************)
(* C20: whenever loading and stopping are both false the elapsed timer is  *)
(* 0: it is reset whenever loading || stopping goes from true to false,    *)
(* also for the time between the end of a stream and the status answer     *)
(* that raises loading again.                                              *)
(***************************************************************************)
C20_IdleTimerZero == (~loading /\ ~stopping) => timer = 0

\* the stream has ended by an error while the remote side runs on: loading
\* is false until the next status answer, and the timer is back at 0
C20_Witness ==
    /\ ~loading /\ ~stopping /\ timer = 0
    /\ remote.running /\ ActiveCalls = {} /\ nSends = 1
    /\ LastMsg(messages) = FailureMsg

(***************************************************************************)
(* C21: while loading || stopping stays true the elapsed timer never       *)
(* decreases: a tick of the interval adds exactly 1 and no other step      *)
(* changes it, also a step that changes one of the two flags while the     *)
(* other keeps the disjunction true.                                       *)
(***************************************************************************)
C21_TimerMonotone ==
    [][((loading \/ stopping) /\ (loading' \/ stopping')) =>
          /\ timer' >= timer
          /\ Tick => timer' = timer + 1
          /\ ~Tick => timer' = timer]_vars

\* loading has dropped at the end of the stream while stopping is still
\* true, and the timer has kept its count
C21_Witness ==
    /\ stopping /\ ~loading /\ timer > 1
    /\ ActiveCalls = {} /\ nSends = 1

(***************************************************************************)
(* C22: the records of a stream are applied in the order of arrival: for   *)
(* every cut of the body into chunks, the transcript after the stream is   *)
(* the left fold of the reducer, from the transcript the loop started      *)
(* with, over the events decoded from the body in the order of their       *)
(* records in the body.                                                    *)
(***************************************************************************)
\* the events decoded from a body, in the order of their records: one for
\* each line ended by a newline that is a record
RECURSIVE EventsOf(_)
EventsOf(lines) ==
    IF lines = <<>> THEN <<>>
    ELSE (IF WellFormed(Head(lines)) THEN <<EventOfKey(Trim(Head(lines))[2])>> ELSE <<>>)
         \o EventsOf(Tail(lines))

RECURSIVE FoldLeft(_, _)
FoldLeft(msgs, events) ==
    IF events = <<>> THEN msgs
    ELSE FoldLeft(ApplyEvent(msgs, Head(events)), Tail(events))

C22_ArrivalOrder ==
    (calls[1].pc = "done" /\ wire = <<>>) =>
        messages = FoldLeft(start, EventsOf(CompleteLines(delivered)))

\* two status records in one body: the later one has the last word
C22_Witness ==
    /\ calls[1].pc = "done" /\ wire = <<>>
    /\ delivered = RecordText("S") \o <<NL>> \o Encode(RecordText(EAcute)) \o <<NL>>
    /\ LastMsg(messages).thinking = <<EAcute>>

(***************************************************************************)
(* C23: on a transport failure of a submission (the request rejects, the   *)
(* response has no body, a read fails) exactly one assistant message with  *)
(* the failure notice is appended at the end of the transcript, every      *)
(* message that was there, a partly filled placeholder too, is left as it  *)
(* was, and the call settles: streaming flag and loading false, call over. *)
(***************************************************************************)
C23_TransportFailure ==
    [][\A i \in CallIds :
          (FetchReject(i) \/ FetchNoBody(i) \/ ReadError(i)) =>
             /\ Len(messages') = Len(messages) + 1
             /\ \A k \in 1..Len(messages) : messages'[k] = messages[k]
             /\ LastMsg(messages') = Msg("assistant", FailureText, Undef, Undef, Undef)
             /\ ~isStreaming' /\ ~loading' /\ calls'[i].pc = "done"]_vars

\* a read has failed after the record {D} was applied: the filled
\* placeholder is kept, the failure message follows it
C23_Witness ==
    /\ Len(messages) = 3
    /\ messages[2].role = "assistant" /\ messages[2].content = <<"d">>
    /\ messages[3] = Msg("assistant", FailureText, Undef, Undef, Undef)
    /\ ~loading /\ ~isStreaming /\ ActiveCalls = {}

(***************************************************************************)
(* C24: on every exit of an accepted sendMessage (end of the stream, no    *)
(* response body, request rejected, read error) the streaming flag is      *)
(* cleared and then loading set to false: no exit leaves the flag set, and *)
(* the effect on loading, running after both, sees the flag cleared and    *)
(* issues the history refresh when loading was true.                       *)
(***************************************************************************)
C24_ExitClears ==
    [][\A i \in CallIds :
          (ReadDone(i) \/ FetchNoBody(i) \/ FetchReject(i) \/ ReadError(i)) =>
             /\ ~isStreaming' /\ ~loading'
             /\ loading => hist'.refresh > 0]_vars

\* the stream has ended normally, with loading still true until then
C24_Witness ==
    /\ \E i \in CallIds : calls[i].pc = "done"
    /\ ~isStreaming /\ ~loading /\ hist.refresh > 0
    /\ Len(messages) = 2 /\ messages[2].content = <<"d">>

(***************************************************************************)
(* C25 as claimed: while a sendMessage call is between its accepted guard  *)
(* and the end of its stream, loading is true: no status answer sets       *)
(* loading to false during an active stream.                               *)
(***************************************************************************)
C25_LoadingWhileStreaming == ActiveCalls # {} => loading

(***************************************************************************)
(* C26 as claimed: a history refresh is issued only in a step that takes   *)
(* loading from true to false while no stream is read; never while a read  *)
(* loop is in progress, never when loading goes from false to true or a    *)
(* status answer leaves loading as it is.                                  *)
(***************************************************************************)
C26_RefreshOnlyWhenIdle ==
    [][hist'.refresh > hist.refresh =>
          /\ loading /\ ~loading'
          /\ \A i \in CallIds : calls'[i].pc # "read"]_vars

(***************************************************************************)
(* C27 as claimed: the history refresh is issued only once the idle state  *)
(* is confirmed: between the end of the stream and the issue of the        *)
(* refresh a status answer has reported the remote side as not running,    *)
(* so that a refresh is issued only by such an answer, no call active.     *)
(***************************************************************************)
C27_Original ==
    [][hist'.refresh > hist.refresh =>
          \E p \in polls : PollApply(p) /\ ~p.running /\ ActiveCalls = {}]_vars

\* C27 as amended: the refresh is issued at once by the step that takes
\* loading from true to false with the streaming flag cleared: by the end of
\* the stream itself when loading was still true, no status answer in
\* between, or by a later status answer that lowers loading after the
\* stream has ended; a status answer during the stream issues none.
C27_RefreshAtTransition ==
    [][/\ \A i \in CallIds :
            ((ReadDone(i) \/ ReadError(i) \/ FetchReject(i) \/ FetchNoBody(i))
                /\ loading /\ hist.refresh < MaxHist)
               => hist'.refresh = hist.refresh + 1
       /\ \A p \in polls :
            (PollApply(p) /\ loading /\ ~p.running /\ ~isStreaming /\ hist.refresh < MaxHist)
               => hist'.refresh = hist.refresh + 1
       /\ \A p \in polls :
            (PollApply(p) /\ isStreaming) => hist'.refresh = hist.refresh]_vars

\* the stream is over, the refresh is in flight and the remote side still
\* runs: no status answer can have confirmed the idle state
C27_Witness ==
    /\ \E i \in CallIds : calls[i].pc = "done"
    /\ hist.refresh = 1 /\ ~loading /\ remote.running /\ polls = {}

(***************************************************************************)
(* C28 as claimed: an error event, and likewise a done event, finalizes    *)
(* the in-progress message: once it has been applied, no later event of    *)
(* the stream changes the content or the thinking of that message.         *)
(***************************************************************************)
FinalApplied == \E k \in 1..(Len(applied) - 1) : applied[k].type \in {"error", "done"}

C28_Original ==
    (Reached /\ FinalApplied) =>
        /\ LastMsg(messages).content = LastMsg(prev).content
        /\ LastMsg(messages).thinking = LastMsg(prev).thinking

\* C28 as amended: an error event replaces the content of the in-progress
\* message by its text and a done event replaces content, time and
\* duration, both leaving thinking alone; the reducer keeps no mark of it:
\* an event that arrives later is applied like any other, a status event
\* replacing thinking, an error or done event replacing content again.
C28_TerminalNotFinal ==
    /\ (Reached /\ LastEvent.type \in {"error", "done"}) =>
            /\ LastMsg(messages).content = LastEvent.content
            /\ LastMsg(messages).thinking = LastMsg(prev).thinking
    /\ (Reached /\ FinalApplied /\ LastEvent.type = "status") =>
            /\ LastMsg(messages).thinking = LastEvent.content
            /\ LastMsg(messages).content = LastMsg(prev).content

\* a status event after done: content as done left it, thinking replaced
C28_Witness ==
    /\ Reached /\ Len(applied) = 2
    /\ applied[1].type = "done" /\ applied[2].type = "status"
    /\ start = <<UserMsg(<<"a">>), Placeholder>>
    /\ LastMsg(messages).content = <<"F">> /\ LastMsg(messages).thinking = <<"s">>

(***************************************************************************)
(* C29 as claimed: for a step event with an action, thinking becomes the   *)
(* rendering of the action, followed only by the result annotation when    *)
(* the event carries a message that is not final, whatever thinking the    *)
(* message had and the event carries; for a step event without action,     *)
(* thinking becomes the thinking of the event when it has one and stays    *)
(* as it was otherwise.                                                    *)
(***************************************************************************)
\* the result annotation of a step event
Annotation(ev) ==
    IF Truthy(ev.message) /\ ~ev.finished THEN ResultPrefix \o ev.message ELSE <<>>

C29_Original ==
    (Reached /\ LastEvent.type = "step") =>
        LastMsg(messages).thinking =
            IF LastEvent.action # NoAction
            THEN RenderAction(LastEvent.action) \o Annotation(LastEvent)
            ELSE IF LastEvent.thinking # Undef THEN LastEvent.thinking
                 ELSE LastMsg(prev).thinking

\* C29 as amended: without action, thinking becomes the thinking of the
\* event when that is a non-empty text and stays as it was otherwise, and
\* in both cases, as with an action, the result annotation follows when the
\* event carries a non-empty message that is not final.
C29_StepThinking ==
    (Reached /\ LastEvent.type = "step") =>
        LastMsg(messages).thinking =
            (IF LastEvent.action # NoAction THEN RenderAction(LastEvent.action)
             ELSE IF LastEvent.thinking # Undef /\ LastEvent.thinking # <<>>
                  THEN LastEvent.thinking
                  ELSE LastMsg(prev).thinking)
            \o Annotation(LastEvent)

\* a step with thinking and action on a message that had a thinking text:
\* the rendering of the action alone is left
C29_Witness ==
    /\ Reached /\ LastEvent.type = "step" /\ LastEvent.action = TapAction
    /\ LastEvent.thinking = <<"k">> /\ LastEvent.message = Undef
    /\ LastMsg(prev).thinking = <<"s">>
    /\ LastMsg(messages).thinking = RenderAction(TapAction)

(***************************************************************************)
(* C30: after every status answer that carries a stopping value has been   *)
(* applied, stopping equals that value, whatever loading, the streaming    *)
(* flag and stopping were before.                                          *)
(***************************************************************************)
C30_StoppingPublished ==
    [][\A p \in polls : (PollApply(p) /\ p.hasStopping) => stopping' = p.stopping]_vars

\* a status answer with stopping true has been applied while the stream
\* is read
C30_Witness ==
    /\ stopping /\ isStreaming /\ remote.stopping /\ polls = {}
    /\ \E i \in CallIds : calls[i].pc = "read"

(***************************************************************************)
(* C31: the stopping flag is changed only when a status answer is applied: *)
(* no send, step of a stream, end of a stream, stop request, answer to a   *)
(* history request or history clear changes it; and no step of the poller  *)
(* (sending the status request, applying its answer, its failure) writes   *)
(* the transcript.                                                         *)
(***************************************************************************)
C31_FieldOwnership ==
    [][/\ (\/ SendMessage
           \/ \E b \in BOOLEAN : HandleStop(b)
           \/ ClearHistory
           \/ \E i \in CallIds : FetchReject(i) \/ FetchNoBody(i) \/ FetchOk(i)
           \/ \E i \in CallIds : \E c \in Chunks : ReadChunk(i, c)
           \/ \E i \in CallIds : ReadDone(i) \/ ReadError(i)
           \/ \E k \in HistoryKinds : \E h \in Histories : HistoryAnswer(k, h)
           \/ \E k \in HistoryKinds : HistoryNone(k))
          => stopping' = stopping
       /\ (\/ \E b \in BOOLEAN : PollTick(b)
           \/ \E p \in polls : PollApply(p)
           \/ \E p \in polls : PollFail(p))
          => messages' = messages]_vars

\* a status answer has raised stopping and the stream has then ended: the
\* end of the stream has lowered loading and left stopping as the poller
\* set it, and the poller has left the transcript as the stream wrote it
C31_Witness ==
    /\ stopping /\ ~loading /\ ~isStreaming
    /\ \E i \in CallIds : calls[i].pc = "done"
    /\ messages = <<UserMsg(<<"a">>), Placeholder>>

(***************************************************************************)
(* C32: the transcript is append-only during a live session: while a       *)
(* sendMessage call is between its accepted guard and its finally block,   *)
(* the transcript holds the user message of the submission, and from the   *)
(* start of the read loop on an assistant message after it; no answer to a *)
(* history request (the load on mount, a refresh, a clear) takes them      *)
(* away.                                                                   *)
(***************************************************************************)
C32_AppendOnlyWhileLive ==
    \A i \in CallIds :
        Active(calls[i]) =>
            \E k \in DOMAIN messages :
                /\ messages[k] = UserMsg(<<"a">>)
                /\ calls[i].pc = "read" =>
                      \E j \in DOMAIN messages : j > k /\ messages[j].role = "assistant"

(***************************************************************************)
(* C33: every submit request carries an integer loop_count >= 1: it is 1   *)
(* whenever loop mode is off and the configured count whenever loop mode   *)
(* is on; and the configured count is an integer >= 1 after every edit of  *)
(* the loop count field, whatever parseInt makes of the text it holds.     *)
(***************************************************************************)
C33_LoopCountAtLeastOne ==
    /\ loopCount \in Nat /\ loopCount >= 1
    /\ [][/\ loopCount' \in Nat /\ loopCount' >= 1
          /\ \A raw \in RawCounts :
                SetLoopCount(raw) =>
                   loopCount' = (IF raw # NaN /\ raw[1] >= 1 THEN raw[1] ELSE 1)
          /\ SendAccepted =>
                LET sent == calls'[nSends + 1].loop_count
                IN  /\ sent \in Nat /\ sent >= 1
                    /\ ~isLoopMode => sent = 1
                    /\ isLoopMode => sent = loopCount]_vars

\* the count was set to 2 and loop mode then switched off: the request in
\* flight carries 1
C33_Witness ==
    /\ ~isLoopMode /\ loopCount = 2
    /\ \E i \in CallIds : calls[i].pc = "fetch" /\ calls[i].loop_count = 1

(***************************************************************************)
(* C34: clearing history changes nothing but the transcript: the request   *)
(* itself changes no state of the view; its answer, when it carries a      *)
(* history, makes the transcript that history, whatever the transcript     *)
(* was, and leaves loading, stopping, the streaming flag, the timer, the   *)
(* input and the calls as they are; when the request fails or the answer   *)
(* carries no history, the transcript and all the rest stay as they are.   *)
(***************************************************************************)
C34_ClearReplaces ==
    [][/\ ClearHistory => UNCHANGED <<ctl, calls, polls>>
       /\ \A h \in Histories :
             HistoryAnswer("clear", h) =>
                /\ messages' = h
                /\ UNCHANGED <<input, loading, stopping, isStreaming, prevLoading,
                               crashed, timer, isLoopMode, loopCount, calls, polls>>
       /\ HistoryNone("clear") => UNCHANGED <<ctl, calls, polls>>]_vars

\* the answer to a clear has arrived while the stream is read and the load
\* on mount is still open: the transcript is the history of the answer, the
\* view is still loading and streaming and its timer has not been reset
C34_Witness ==
    /\ messages = <<HUser, HAsst>>
    /\ hist.load = 1 /\ hist.clear = 0
    /\ loading /\ isStreaming /\ timer > 0
    /\ \E i \in CallIds : calls[i].pc = "read"

(***************************************************************************)
(* C35: a stream writes only to the placeholder of its own submission: a   *)
(* step of the read loop of a call leaves every message that was loaded    *)
(* from the persisted history as it is, whatever history answers and       *)
(* other sends have come in between.                                       *)
(***************************************************************************)
C35_OwnPlaceholderOnly ==
    [][\A i \in CallIds : \A c \in Chunks :
          ReadChunk(i, c) =>
             \A k \in DOMAIN messages :
                messages[k] \in {HUser, HAsst} =>
                   k \in DOMAIN messages' /\ messages'[k] = messages[k]]_vars

(***************************************************************************)
(* C36 as claimed: by the time its sendMessage call has finished, an       *)
(* accepted submission has contributed exactly one user message and        *)
(* exactly one assistant message to the transcript, on every path: end of  *)
(* the stream, request rejected, no response body, read error after the    *)
(* placeholder was created.  Stated for a call whose own messages are all  *)
(* the transcript holds when it finishes.                                  *)
(***************************************************************************)
CountRole(msgs, role) == Cardinality({k \in DOMAIN msgs : msgs[k].role = role})

\* the transcript holds what call i has appended so far and nothing else
OwnOnly(i) ==
    /\ nSends = 1
    /\ \/ calls[i].pc = "fetch" /\ messages = <<UserMsg(<<"a">>)>>
       \/ /\ calls[i].pc = "read" /\ Len(messages) = 2
          /\ messages[1] = UserMsg(<<"a">>) /\ messages[2].role = "assistant"

\* the call leaves sendMessage
Exits(i) == ReadDone(i) \/ FetchReject(i) \/ FetchNoBody(i) \/ ReadError(i)

C36_Original ==
    [][\A i \in CallIds :
          (OwnOnly(i) /\ Exits(i)) =>
             /\ CountRole(messages', "user") = 1
             /\ CountRole(messages', "assistant") = 1]_vars

\* C36 as amended: every step of a call appends what its path says and
\* nothing else: the accepted send one user message, the response with a
\* body one placeholder, a rejected request, a response without body and a
\* read error one failure message, a chunk and the end of the stream
\* nothing.  A call that finishes by the end of the stream, a rejected
\* request or a missing body has so contributed one user and one assistant
\* message; a call that finishes by a read error one user and two
\* assistant messages, the placeholder and the failure message.
C36_Contributions ==
    [][/\ SendAccepted => messages' = Append(messages, UserMsg(input))
       /\ \A i \in CallIds :
             /\ FetchOk(i) => messages' = Append(messages, Placeholder)
             /\ (FetchReject(i) \/ FetchNoBody(i) \/ ReadError(i)) =>
                   messages' = Append(messages, FailureMsg)
             /\ ReadDone(i) => messages' = messages
             /\ \A c \in Chunks :
                   ReadChunk(i, c) =>
                      /\ Len(messages') = Len(messages)
                      /\ \A k \in DOMAIN messages : messages'[k].role = messages[k].role
             /\ (OwnOnly(i) /\ Exits(i)) =>
                   /\ CountRole(messages', "user") = 1
                   /\ CountRole(messages', "assistant") = IF ReadError(i) THEN 2 ELSE 1]_vars

\* the first read of a stream has failed: the transcript is the user
\* message, the empty placeholder and the failure message
C36_Witness ==
    /\ messages = <<UserMsg(<<"a">>), Placeholder, FailureMsg>>
    /\ \E i \in CallIds : calls[i].pc = "done"
    /\ ActiveCalls = {}

(***************************************************************************)
(* C37: a failed poll tick (the status request rejects or its body cannot  *)
(* be parsed) leaves loading, stopping, the transcript and all other state *)
(* of the view unchanged, and it does not stop the polling: as long as the *)
(* view is mounted the next status request can be sent, and an answer in   *)
(* flight can be applied.                                                  *)
(***************************************************************************)
C37_PollFailureHarmless ==
    /\ [][\A p \in polls :
             PollFail(p) =>
                /\ UNCHANGED <<ctl, calls, hist>>
                /\ polls' = polls \ {p}]_vars
    /\ [](~crashed =>
             /\ Cardinality(polls) < MaxPolls => ENABLED PollTick(TRUE)
             /\ \A p \in polls : ENABLED PollApply(p))

\* the remote side has finished, the view still shows loading and stopping
\* and no status answer is in flight: the state a failed tick leaves behind
\* until the next one
C37_Witness ==
    /\ loading /\ stopping /\ ~remote.running
    /\ polls = {} /\ ActiveCalls = {} /\ ~crashed

(***************************************************************************)
(* C38: in ADBControlView the loading flag of each operation (reboot,      *)
(* install, screenshot) is true exactly while a request of that operation  *)
(* is in flight, also when two operations overlap: the start and the end   *)
(* of one operation never set or clear the flag of another.                *)
(***************************************************************************)
C38_FlagWhileInFlight ==
    \A op \in Operations : Flag(adbLoading, op) <=> op \in InFlight

====
